---- MODULE Spec2Model ----
(***************************************************************************)
(* Model of the weak-symbol / RTTI unification example: the shared class   *)
(* hierarchy (include/), the DLL unit (lib/shared_library.cpp) and the     *)
(* host unit (src/host_implementation.cpp, src/main.cpp).                  *)
(*                                                                         *)
(* The state is the heap of live objects, the loader's decision whether    *)
(* the two units' weak definitions were coalesced, the result and          *)
(* std::cout text of the most recent call, the exception it raised, and    *)
(* the position, locals, transcript and exit code of main().               *)
(***************************************************************************)
EXTENDS Integers, Sequences, FiniteSets, TLC

VARIABLES
    objs,        \* heap: pointer -> object record, or Free
    coalesced,   \* TRUE iff the loader merged the units' type_info objects
    ret,         \* the most recent call, see Call
    cout,        \* the lines the most recent call wrote to std::cout
    exc,         \* the exception the most recent call raised, or "none"
    pc,          \* main(): <<index into MainBody, statement of that scenario>>
    locals,      \* main(): the pointers held by the running scenario
    reported,    \* main(): every line written to std::cout so far
    exitCode     \* main(): the value returned, once it has returned

vars == <<objs, coalesced, ret, cout, exc, pc, locals, reported, exitCode>>

mainVars == <<pc, locals, reported, exitCode>>

(***************************************************************************)
(* Bounds and input sets                                                   *)
(***************************************************************************)
MaxObjs == 2

\* heap cells available to a run of main()
HeapCells == 4

NULL == 0

Ptrs == DOMAIN objs

PtrArgs == Ptrs \cup {NULL}

\* payloads of the scenarios, and those of the edge-case test in addition
Values == {0, 500}

EdgeValues == {-1, 0, 1, 500}

IntData == {123}

StrData == {"test"}

\* arguments of performSharedOperation
OperationValues == {42, 99}

Units == {"HOST", "DLL"}

ConcreteClasses == {"SharedWorker", "TemplatedWorker<int>", "TemplatedWorker<std::string>"}

Classes == {"IBaseObject", "AbstractWorker"} \cup ConcreteClasses

Free == [class |-> "free"]

\* An object: its dynamic class, the unit whose code constructed it (whose
\* vtable and type_info it refers to), and its data members.  Record fields
\* are listed in the order TLC keeps them in.
NewSharedWorker(value, source, by) ==
    [class |-> "SharedWorker", unit |-> by, m_source |-> source, m_value |-> value]

NewTemplatedWorker(T, data, source, by) ==
    [class |-> T, unit |-> by, m_source |-> source, m_data |-> data]

\* A call record: the function, the unit whose compiled code ran it (for a
\* weak function, the unit whose code made the call), its
\* pointer argument, its second argument (a pointer, or the payload handed
\* to a factory or to setValue), the cast target, the returned value, and
\* whether the call dereferenced its pointer argument.
Call(op, unit, arg, arg2, target, val, deref) ==
    [unit |-> unit, op |-> op, arg |-> arg, arg2 |-> arg2, target |-> target,
     val |-> val, deref |-> deref]

NoCall == Call("none", "HOST", NULL, NULL, "none", FALSE, FALSE)

(***************************************************************************)
(* Text helpers: operator<< on an int, std::hex, std::string::find         *)
(***************************************************************************)
Digit(d) == SubSeq("0123456789abcdef", d + 1, d + 1)

RECURSIVE NatToStr(_, _)
NatToStr(n, base) ==
    IF n < base THEN Digit(n)
    ELSE NatToStr(n \div base, base) \o Digit(n % base)

IntToStr(n) == IF n < 0 THEN "-" \o NatToStr(0 - n, 10) ELSE NatToStr(n, 10)

\* A 64-bit address or hash is kept as [hi, mid, low]: bits 63..32, 31..16
\* and 15..0.
Word(hi, mid, low) == [hi |-> hi, mid |-> mid, low |-> low]

WordAdd(w, n) ==
    LET low == w.low + n
        mid == w.mid + (low \div 65536)
    IN  Word(w.hi + (mid \div 65536), mid % 65536, low % 65536)

Hex4(n) ==
    Digit(n \div 4096) \o Digit((n \div 256) % 16) \o Digit((n \div 16) % 16) \o Digit(n % 16)

\* std::hex of a 64-bit value: no leading zeros
ToHex(w) ==
    IF w.hi # 0 THEN NatToStr(w.hi, 16) \o Hex4(w.mid) \o Hex4(w.low)
    ELSE IF w.mid # 0 THEN NatToStr(w.mid, 16) \o Hex4(w.low)
    ELSE NatToStr(w.low, 16)

Contains(s, sub) ==
    \E i \in 1..(Len(s) - Len(sub) + 1) : SubSeq(s, i, i + Len(sub) - 1) = sub

(***************************************************************************)
(* Class hierarchy (base_types.h, shared_class.h)                          *)
(***************************************************************************)
BaseOf(class) ==
    CASE class = "AbstractWorker" -> "IBaseObject"
      [] class = "SharedWorker" -> "AbstractWorker"
      [] class = "TemplatedWorker<int>" -> "AbstractWorker"
      [] class = "TemplatedWorker<std::string>" -> "AbstractWorker"
      [] OTHER -> "none"

RECURSIVE Ancestors(_)
Ancestors(class) ==
    IF class = "none" THEN {} ELSE {class} \cup Ancestors(BaseOf(class))

(***************************************************************************)
(* Run-time type information.  typeid(X).name() is the mangled name of X;  *)
(* every unit is built by the same compiler, so the name depends on the    *)
(* type only.  Each unit's image carries a type_info object per class; the *)
(* loader binds both units to the host image's copy when it coalesces the  *)
(* weak definitions, and leaves each unit with its own copy otherwise.     *)
(***************************************************************************)
TypeidName(type) ==
    CASE type = "int" -> "i"
      [] type = "std::string" -> "NSt3__112basic_stringIcNS_11char_traitsIcEENS_9allocatorIcEEEE"
      [] type = "IBaseObject" -> "N17WeakSymbolExample11IBaseObjectE"
      [] type = "AbstractWorker" -> "N17WeakSymbolExample14AbstractWorkerE"
      [] type = "SharedWorker" -> "N17WeakSymbolExample12SharedWorkerE"
      [] type = "TemplatedWorker<int>" -> "N17WeakSymbolExample15TemplatedWorkerIiEE"
      [] type = "TemplatedWorker<std::string>" ->
            "N17WeakSymbolExample15TemplatedWorkerINSt3__112basic_stringIcNS1_11char_traitsIcEENS1_9allocatorIcEEEEEE"

TypeInfoAddr(unit, class) ==
    WordAdd(IF unit = "HOST" THEN Word(1, 0, 32768) ELSE Word(1, 8, 32768),
            CASE class = "IBaseObject" -> 0
              [] class = "AbstractWorker" -> 24
              [] class = "SharedWorker" -> 48
              [] class = "TemplatedWorker<int>" -> 72
              [] class = "TemplatedWorker<std::string>" -> 96)

TypeInfo(unit, class) ==
    [name |-> TypeidName(class),
     addr |-> TypeInfoAddr(IF coalesced THEN "HOST" ELSE unit, class)]

\* typeid(*obj): the type_info reached through the object's vtable, which
\* is the one of the unit whose code constructed the object.
Typeid(o) == TypeInfo(o.unit, o.class)

TypeInfoEquals(t1, t2) == t1.addr = t2.addr

HashCode(ti) == ti.addr

(***************************************************************************)
(* Member functions                                                        *)
(***************************************************************************)
TemplateArg(class) ==
    IF class = "TemplatedWorker<int>" THEN "int" ELSE "std::string"

\* operator<< on the template payload
StreamData(o) ==
    IF o.class = "TemplatedWorker<int>" THEN IntToStr(o.m_data) ELSE o.m_data

\* variant: the name carries the origin tag
SharedWorker_getTypeName_Tagged(o) == "SharedWorker@" \o o.m_source

SharedWorker_getTypeName(o) == "SharedWorker"

\* variant: the template argument is left out of the name
TemplatedWorker_getTypeName_NoArg(o) == "TemplatedWorker<" \o ">"

TemplatedWorker_getTypeName(o) ==
    "TemplatedWorker<" \o TypeidName(TemplateArg(o.class)) \o ">"

AbstractWorker_getDescription(o) == "AbstractWorker base implementation"

SharedWorker_getDescription(o) ==
    "SharedWorker created from " \o o.m_source \o " with value " \o IntToStr(o.m_value)

TemplatedWorker_getDescription(o) ==
    "TemplatedWorker from " \o o.m_source \o " with data: " \o StreamData(o)

SharedWorker_getSource(o) == o.m_source

SharedWorker_getValue(o, p) == o.m_value

\* the heap address of the object at pointer p
AddressOf(p) == WordAdd(Word(24576, 32768, 4096), 48 * p)

\* static_cast<int>(intptr_t): keep the low 32 bits, two's complement
ToInt32(w) ==
    IF w.mid >= 32768 THEN (w.mid - 65536) * 65536 + w.low
    ELSE w.mid * 65536 + w.low

\* &m_data lies behind the vtable pointer
TemplatedWorker_getValue(o, p) == ToInt32(WordAdd(AddressOf(p), 8))

SharedWorker_performAction(o) ==
    << "SharedWorker::performAction() called from " \o o.m_source
       \o " with value " \o IntToStr(o.m_value) >>

TemplatedWorker_performAction(o) ==
    << "TemplatedWorker::performAction() from " \o o.m_source >>

SharedWorker_doWork(o) ==
    << "SharedWorker::doWork() - Processing work from " \o o.m_source >>

TemplatedWorker_doWork(o) ==
    << "TemplatedWorker::doWork() with data: " \o StreamData(o) >>

AbstractWorker_isReady(o) == TRUE

\* variant: zero counts as ready
SharedWorker_isReady_NonNegative(o) == o.m_value >= 0

SharedWorker_isReady(o) == o.m_value > 0

(***************************************************************************)
(* Virtual dispatch: the final overrider of each virtual function in the   *)
(* object's dynamic class.                                                 *)
(***************************************************************************)
getTypeName(o) ==
    IF o.class = "SharedWorker" THEN SharedWorker_getTypeName(o)
    ELSE TemplatedWorker_getTypeName(o)

getDescription(o) ==
    IF o.class = "SharedWorker" THEN SharedWorker_getDescription(o)
    ELSE TemplatedWorker_getDescription(o)

getValue(o, p) ==
    IF o.class = "SharedWorker" THEN SharedWorker_getValue(o, p)
    ELSE TemplatedWorker_getValue(o, p)

\* variant: SharedWorker's override is missing from the dispatch
performAction_NoSharedOverride(o) == TemplatedWorker_performAction(o)

performAction(o) ==
    IF o.class = "SharedWorker" THEN SharedWorker_performAction(o)
    ELSE TemplatedWorker_performAction(o)

doWork(o) ==
    IF o.class = "SharedWorker" THEN SharedWorker_doWork(o)
    ELSE TemplatedWorker_doWork(o)

isReady(o) ==
    IF o.class = "SharedWorker" THEN SharedWorker_isReady(o)
    ELSE AbstractWorker_isReady(o)

(***************************************************************************)
(* dynamic_cast<target*>(p) evaluated by code compiled in `unit`: walks    *)
(* the bases of the object's dynamic type and matches each against the     *)
(* casting unit's type_info of the target.  The classes come from one      *)
(* header, so the two denote the same type exactly when they carry the     *)
(* same name.                                                              *)
(***************************************************************************)
\* variant: type_info objects are matched by address
SameType_ByAddress(t1, t2) == t1.addr = t2.addr

SameType(t1, t2) == t1.name = t2.name

\* variant: an unchecked (static) cast
DynamicCast_Unchecked(unit, p, target) == p

DynamicCast(unit, p, target) ==
    IF p = NULL THEN NULL
    ELSE IF \E c \in Ancestors(objs[p].class) :
                SameType(TypeInfo(objs[p].unit, c), TypeInfo(unit, target))
         THEN p
         ELSE NULL

Live(p) == p \in Ptrs /\ objs[p] # Free

LivePtrs == {p \in Ptrs : objs[p] # Free}

(***************************************************************************)
(* RTTI utilities of the DLL (shared_library.cpp) and of the host          *)
(* (host_implementation.cpp).  Each yields the returned value, the lines   *)
(* written to std::cout and whether *obj was read.                         *)
(***************************************************************************)
Result(val, out, deref) == [val |-> val, deref |-> deref, out |-> out]

\* a call left by an exception: no value, the exception in flight
Throw(e, out, deref) == [val |-> FALSE, deref |-> deref, out |-> out, thrown |-> e]

Thrown(r) == IF "thrown" \in DOMAIN r THEN r.thrown ELSE "none"

CastStatus(q) == IF q # NULL THEN "SUCCESS" ELSE "FAILED"

testDynamicCast(obj) ==
    IF obj = NULL THEN Result(FALSE, <<>>, FALSE)
    ELSE LET worker == DynamicCast("DLL", obj, "AbstractWorker")
             sharedWorker == DynamicCast("DLL", obj, "SharedWorker")
             templatedInt == DynamicCast("DLL", obj, "TemplatedWorker<int>")
             templatedString == DynamicCast("DLL", obj, "TemplatedWorker<std::string>")
         IN  Result(worker # NULL,
                    << "DLL: Testing dynamic_cast operations...",
                       "  -> dynamic_cast<AbstractWorker*>: " \o CastStatus(worker),
                       "  -> dynamic_cast<SharedWorker*>: " \o CastStatus(sharedWorker),
                       "  -> dynamic_cast<TemplatedWorker<int>*>: " \o CastStatus(templatedInt),
                       "  -> dynamic_cast<TemplatedWorker<string>*>: " \o CastStatus(templatedString) >>,
                    TRUE)

\* variant: the result is that of the cast to SharedWorker
testHostDynamicCast_SharedOnly(obj) ==
    IF obj = NULL THEN Result(FALSE, <<>>, FALSE)
    ELSE LET sharedWorker == DynamicCast("HOST", obj, "SharedWorker")
         IN  Result(sharedWorker # NULL, <<>>, TRUE)

testHostDynamicCast(obj) ==
    IF obj = NULL THEN Result(FALSE, <<>>, FALSE)
    ELSE LET worker == DynamicCast("HOST", obj, "AbstractWorker")
         IN  Result(worker # NULL, <<>>, TRUE)

TypeInfoText(ti) ==
    "Type: " \o ti.name \o " (hash_code: 0x" \o ToHex(HashCode(ti)) \o ")"

\* variant: no null check, typeid applied to a null pointer
getTypeInfo_Unguarded(obj) ==
    IF obj = NULL THEN Throw("std::bad_typeid", <<>>, TRUE)
    ELSE Result(TypeInfoText(Typeid(objs[obj])), <<>>, TRUE)

getTypeInfo(obj) ==
    IF obj = NULL THEN Result("null", <<>>, FALSE)
    ELSE Result(TypeInfoText(Typeid(objs[obj])), <<>>, TRUE)

\* variant: an absent object yields the empty string
getHostTypeInfo_EmptyOnNull(obj) ==
    IF obj = NULL THEN Result("", <<>>, FALSE)
    ELSE Result(TypeInfoText(Typeid(objs[obj])), <<>>, TRUE)

getHostTypeInfo(obj) ==
    IF obj = NULL THEN Result("null", <<>>, FALSE)
    ELSE Result(TypeInfoText(Typeid(objs[obj])), <<>>, TRUE)

printObjectInfo(obj) ==
    IF obj = NULL THEN Result(FALSE, << "DLL: Object is null" >>, FALSE)
    ELSE Result(FALSE,
                << "DLL: Object Information:",
                   "  Type Name: " \o getTypeName(objs[obj]),
                   "  Description: " \o getDescription(objs[obj]),
                   "  Value: " \o IntToStr(getValue(objs[obj], obj)),
                   "  RTTI Info: " \o getTypeInfo(obj).val,
                   "  Calling performAction():" >>
                \o performAction(objs[obj]),
                TRUE)

printHostObjectInfo(obj) ==
    IF obj = NULL THEN Result(FALSE, << "HOST: Object is null" >>, FALSE)
    ELSE Result(FALSE,
                << "HOST: Object Information:",
                   "  Type Name: " \o getTypeName(objs[obj]),
                   "  Description: " \o getDescription(objs[obj]),
                   "  Value: " \o IntToStr(getValue(objs[obj], obj)),
                   "  RTTI Info: " \o getHostTypeInfo(obj).val,
                   "  Calling performAction():" >>
                \o performAction(objs[obj]),
                TRUE)

(***************************************************************************)
(* extern "C" interface.  A const char* is <<>> when null and <<text>>     *)
(* when it points at text.                                                 *)
(***************************************************************************)
test_dynamic_cast_c(obj) ==
    LET r == testDynamicCast(obj)
    IN  Result(IF r.val THEN 1 ELSE 0, r.out, r.deref)

\* variant: an absent object yields the text "null" as getTypeInfo does
get_type_name_c_Text(obj) ==
    IF obj = NULL THEN Result(<< "null" >>, <<>>, FALSE)
    ELSE Result(<< Typeid(objs[obj]).name >>, <<>>, TRUE)

get_type_name_c(obj) ==
    IF obj = NULL THEN Result(<<>>, <<>>, FALSE)
    ELSE Result(<< Typeid(objs[obj]).name >>, <<>>, TRUE)

print_object_info_c(obj) == printObjectInfo(obj)

(***************************************************************************)
(* The weak functions of namespace Internal.  Both units define them; a     *)
(* call binds to the host image's definition when the loader coalesced the *)
(* weak definitions and to the caller's own definition otherwise.          *)
(***************************************************************************)
WeakDefinition(caller) == IF coalesced THEN "HOST" ELSE caller

Host_getSharedFunctionResult == "Shared function result from HOST"

DLL_getSharedFunctionResult == "Shared function result from DLL"

getSharedFunctionResult(caller) ==
    IF WeakDefinition(caller) = "HOST"
    THEN Result(Host_getSharedFunctionResult, <<>>, FALSE)
    ELSE Result(DLL_getSharedFunctionResult, <<>>, FALSE)

Host_performSharedOperation(value) ==
    << "HOST: Performing shared operation with value: " \o IntToStr(value) >>

DLL_performSharedOperation(value) ==
    << "DLL: Performing shared operation with value: " \o IntToStr(value) >>

performSharedOperation(caller, value) ==
    IF WeakDefinition(caller) = "HOST"
    THEN Result(FALSE, Host_performSharedOperation(value), FALSE)
    ELSE Result(FALSE, DLL_performSharedOperation(value), FALSE)

(***************************************************************************)
(* Type comparisons made by the scenarios                                  *)
(***************************************************************************)
\* main.cpp: typeid(hostWorker_ref) == typeid(dllWorker_ref), printed only
TypesEqual(o1, o2) == TypeInfoEquals(Typeid(o1), Typeid(o2))

\* EXPECT_STREQ(typeid(hostWorker_ref).name(), typeid(dllWorker_ref).name())
\* variant: the descriptors themselves are compared
TypeNamesEqual_ByDescriptor(o1, o2) == TypeInfoEquals(Typeid(o1), Typeid(o2))

TypeNamesEqual(o1, o2) == Typeid(o1).name = Typeid(o2).name

(***************************************************************************)
(* Initial state                                                           *)
(***************************************************************************)
Init ==
    /\ objs = [p \in 1..MaxObjs |-> Free]
    /\ coalesced \in BOOLEAN
    /\ ret = NoCall
    /\ cout = <<>>
    /\ exc = "none"
    /\ pc = <<1, 1>>
    /\ locals = {}
    /\ reported = <<>>
    /\ exitCode = 0

(***************************************************************************)
(* Construction.  std::make_unique / new return any free heap cell.        *)
(***************************************************************************)
\* The call record of a factory keeps the payload it was given as arg2.
Allocate(op, unit, payload, o, lines) ==
    \E p \in Ptrs :
        /\ objs[p] = Free
        /\ objs' = [objs EXCEPT ![p] = o]
        /\ ret' = Call(op, unit, NULL, payload, o.class, p, FALSE)
        /\ cout' = lines
        /\ exc' = "none"
        /\ UNCHANGED <<coalesced, mainVars>>

createHostSharedWorker(V) ==
    \E value \in V :
        Allocate("createHostSharedWorker", "HOST", value,
                 NewSharedWorker(value, "HOST", "HOST"), <<>>)

\* variant: the base-object factory tags its instances as the worker factory does
createHostBaseObject_PlainTag(V) ==
    \E value \in V :
        Allocate("createHostBaseObject", "HOST", value,
                 NewSharedWorker(value, "HOST", "HOST"), <<>>)

createHostBaseObject(V) ==
    \E value \in V :
        Allocate("createHostBaseObject", "HOST", value,
                 NewSharedWorker(value, "HOST-BaseObject", "HOST"), <<>>)

createHostTemplatedWorkerInt ==
    \E value \in IntData :
        Allocate("createHostTemplatedWorkerInt", "HOST", value,
                 NewTemplatedWorker("TemplatedWorker<int>", value, "HOST", "HOST"), <<>>)

createHostTemplatedWorkerString ==
    \E value \in StrData :
        Allocate("createHostTemplatedWorkerString", "HOST", value,
                 NewTemplatedWorker("TemplatedWorker<std::string>", value, "HOST", "HOST"), <<>>)

createDLLSharedWorker(V) ==
    \E value \in V :
        Allocate("createDLLSharedWorker", "DLL", value,
                 NewSharedWorker(value, "DLL", "DLL"),
                 << "DLL: Creating SharedWorker with value " \o IntToStr(value) >>)

createDLLBaseObject(V) ==
    \E value \in V :
        Allocate("createDLLBaseObject", "DLL", value,
                 NewSharedWorker(value, "DLL-BaseObject", "DLL"),
                 << "DLL: Creating BaseObject (SharedWorker) with value " \o IntToStr(value) >>)

createDLLTemplatedWorkerInt ==
    \E value \in IntData :
        Allocate("createDLLTemplatedWorkerInt", "DLL", value,
                 NewTemplatedWorker("TemplatedWorker<int>", value, "DLL", "DLL"),
                 << "DLL: Creating TemplatedWorker<int> with value " \o IntToStr(value) >>)

createDLLTemplatedWorkerString ==
    \E value \in StrData :
        Allocate("createDLLTemplatedWorkerString", "DLL", value,
                 NewTemplatedWorker("TemplatedWorker<std::string>", value, "DLL", "DLL"),
                 << "DLL: Creating TemplatedWorker<string> with value '" \o value \o "'" >>)

create_dll_object_c(V) ==
    \E value \in V :
        Allocate("create_dll_object_c", "DLL", value,
                 NewSharedWorker(value, "DLL-C-Interface", "DLL"), <<>>)

\* std::make_unique<SharedWorker>(value, "HOST-Local" / "DLL-Local") and
\* std::make_unique<TemplatedWorker<int>>(value, "HOST-Direct" / "DLL-Direct")
\* written out in the code of a unit
make_unique_SharedWorker(V) ==
    \E unit \in Units, value \in V :
        Allocate("make_unique<SharedWorker>", unit, value,
                 NewSharedWorker(value, unit \o "-Local", unit), <<>>)

make_unique_TemplatedWorkerInt ==
    \E unit \in Units, value \in IntData :
        Allocate("make_unique<TemplatedWorker<int>>", unit, value,
                 NewTemplatedWorker("TemplatedWorker<int>", value, unit \o "-Direct", unit), <<>>)

\* a std::unique_ptr going out of scope at the end of a scenario
UniquePtrReset ==
    \E p \in LivePtrs :
        /\ objs[p].m_source # "DLL-C-Interface"
        /\ objs' = [objs EXCEPT ![p] = Free]
        /\ ret' = Call("~unique_ptr", "HOST", p, NULL, "none", FALSE, TRUE)
        /\ cout' = <<>>
        /\ exc' = "none"
        /\ UNCHANGED <<coalesced, mainVars>>

\* delete obj; deleting a null pointer does nothing
destroy_dll_object_c ==
    \E p \in PtrArgs :
        /\ p # NULL => Live(p) /\ objs[p].m_source = "DLL-C-Interface"
        /\ objs' = IF p = NULL THEN objs ELSE [objs EXCEPT ![p] = Free]
        /\ ret' = Call("destroy_dll_object_c", "DLL", p, NULL, "none", FALSE, p # NULL)
        /\ cout' = <<>>
        /\ exc' = "none"
        /\ UNCHANGED <<coalesced, mainVars>>

\* variant: the new value is dropped
setValue_Ignored(V) ==
    \E p \in LivePtrs, newValue \in V :
        /\ objs[p].class = "SharedWorker"
        /\ objs' = objs
        /\ ret' = Call("setValue", "HOST", p, newValue, "none", FALSE, TRUE)
        /\ cout' = <<>>
        /\ exc' = "none"
        /\ UNCHANGED <<coalesced, mainVars>>

setValue(V) ==
    \E p \in LivePtrs, newValue \in V :
        /\ objs[p].class = "SharedWorker"
        /\ objs' = [objs EXCEPT ![p].m_value = newValue]
        /\ ret' = Call("setValue", "HOST", p, newValue, "none", FALSE, TRUE)
        /\ cout' = <<>>
        /\ exc' = "none"
        /\ UNCHANGED <<coalesced, mainVars>>

(***************************************************************************)
(* Calls that leave the heap alone                                         *)
(***************************************************************************)
Invoke(op, unit, arg, arg2, target, r) ==
    /\ ret' = Call(op, unit, arg, arg2, target, r.val, r.deref)
    /\ cout' = r.out
    /\ exc' = Thrown(r)
    /\ UNCHANGED <<objs, coalesced, mainVars>>

\* virtual calls through an IBaseObject* / AbstractWorker*
Call_getTypeName ==
    \E p \in LivePtrs :
        Invoke("getTypeName", "HOST", p, NULL, "none",
               Result(getTypeName(objs[p]), <<>>, TRUE))

Call_getDescription ==
    \E p \in LivePtrs :
        Invoke("getDescription", "HOST", p, NULL, "none",
               Result(getDescription(objs[p]), <<>>, TRUE))

Call_getValue ==
    \E p \in LivePtrs :
        Invoke("getValue", "HOST", p, NULL, "none",
               Result(getValue(objs[p], p), <<>>, TRUE))

Call_isReady ==
    \E p \in LivePtrs :
        Invoke("isReady", "HOST", p, NULL, "none",
               Result(isReady(objs[p]), <<>>, TRUE))

Call_performAction ==
    \E p \in LivePtrs :
        Invoke("performAction", "HOST", p, NULL, "none",
               Result(FALSE, performAction(objs[p]), TRUE))

Call_doWork ==
    \E p \in LivePtrs :
        Invoke("doWork", "HOST", p, NULL, "none",
               Result(FALSE, doWork(objs[p]), TRUE))

\* a dynamic_cast<target*> expression in host code (main.cpp, the tests)
Call_dynamic_cast ==
    \E p \in LivePtrs, target \in ConcreteClasses :
        Invoke("dynamic_cast", "HOST", p, NULL, target,
               Result(DynamicCast("HOST", p, target), <<>>, TRUE))

\* main.cpp testTypeUnification / testCInterface: cast to SharedWorker and,
\* when the cast succeeded, call performAction() on the cast pointer
Call_castedPerformAction ==
    \E p \in LivePtrs :
        LET casted == DynamicCast("HOST", p, "SharedWorker")
        IN  Invoke("casted->performAction", "HOST", p, NULL, "SharedWorker",
                   Result(casted,
                          IF casted # NULL
                          THEN SharedWorker_performAction(objs[casted])
                          ELSE <<>>,
                          TRUE))

Call_testDynamicCast ==
    \E p \in LivePtrs \cup {NULL} :
        Invoke("testDynamicCast", "DLL", p, NULL, "none", testDynamicCast(p))

Call_testHostDynamicCast ==
    \E p \in LivePtrs \cup {NULL} :
        Invoke("testHostDynamicCast", "HOST", p, NULL, "none", testHostDynamicCast(p))

Call_getTypeInfo ==
    \E p \in LivePtrs \cup {NULL} :
        Invoke("getTypeInfo", "DLL", p, NULL, "none", getTypeInfo(p))

Call_getHostTypeInfo ==
    \E p \in LivePtrs \cup {NULL} :
        Invoke("getHostTypeInfo", "HOST", p, NULL, "none", getHostTypeInfo(p))

Call_printObjectInfo ==
    \E p \in LivePtrs \cup {NULL} :
        Invoke("printObjectInfo", "DLL", p, NULL, "none", printObjectInfo(p))

Call_printHostObjectInfo ==
    \E p \in LivePtrs \cup {NULL} :
        Invoke("printHostObjectInfo", "HOST", p, NULL, "none", printHostObjectInfo(p))

Call_test_dynamic_cast_c ==
    \E p \in LivePtrs \cup {NULL} :
        Invoke("test_dynamic_cast_c", "DLL", p, NULL, "none", test_dynamic_cast_c(p))

Call_get_type_name_c ==
    \E p \in LivePtrs \cup {NULL} :
        Invoke("get_type_name_c", "DLL", p, NULL, "none", get_type_name_c(p))

Call_print_object_info_c ==
    \E p \in LivePtrs \cup {NULL} :
        Invoke("print_object_info_c", "DLL", p, NULL, "none", print_object_info_c(p))

Call_TypesEqual ==
    \E p \in LivePtrs, q \in LivePtrs :
        /\ p < q
        /\ Invoke("typeid==", "HOST", p, q, "none",
                  Result(TypesEqual(objs[p], objs[q]), <<>>, TRUE))

Call_TypeNamesEqual ==
    \E p \in LivePtrs, q \in LivePtrs :
        /\ p < q
        /\ Invoke("typeid.name==", "HOST", p, q, "none",
                  Result(TypeNamesEqual(objs[p], objs[q]), <<>>, TRUE))

\* a weak function called from host code (the tests) and from DLL code
\* (demonstrateWeakSymbolUnification)
Call_getSharedFunctionResult ==
    \E caller \in Units :
        Invoke("getSharedFunctionResult", caller, NULL, NULL, "none",
               getSharedFunctionResult(caller))

Call_performSharedOperation ==
    \E caller \in Units, value \in OperationValues :
        Invoke("performSharedOperation", caller, NULL, value, "none",
               performSharedOperation(caller, value))

\* construction, destruction and update of objects, with payloads from V
HeapStep(V) ==
    \/ createHostSharedWorker(V)
    \/ createHostBaseObject(V)
    \/ createHostTemplatedWorkerInt
    \/ createHostTemplatedWorkerString
    \/ createDLLSharedWorker(V)
    \/ createDLLBaseObject(V)
    \/ createDLLTemplatedWorkerInt
    \/ createDLLTemplatedWorkerString
    \/ create_dll_object_c(V)
    \/ UniquePtrReset
    \/ destroy_dll_object_c
    \/ setValue(V)

\* type names and type comparisons
NextNames ==
    \/ HeapStep(Values)
    \/ Call_getTypeName
    \/ Call_TypesEqual
    \/ Call_TypeNamesEqual
    \/ Call_dynamic_cast

SpecNames == Init /\ [][NextNames]_vars

\* checked casts
NextCast ==
    \/ HeapStep(Values)
    \/ Call_dynamic_cast
    \/ Call_testDynamicCast
    \/ Call_testHostDynamicCast

SpecCast == Init /\ [][NextCast]_vars

\* payload queries
NextValue ==
    \/ HeapStep(EdgeValues)
    \/ Call_getValue
    \/ Call_isReady

SpecValue == Init /\ [][NextValue]_vars

\* the RTTI utilities of both units
NextUtil ==
    \/ HeapStep(Values)
    \/ Call_testDynamicCast
    \/ Call_testHostDynamicCast
    \/ Call_getTypeInfo
    \/ Call_getHostTypeInfo
    \/ Call_printObjectInfo
    \/ Call_printHostObjectInfo

SpecUtil == Init /\ [][NextUtil]_vars

\* the extern "C" interface
NextC ==
    \/ HeapStep(Values)
    \/ Call_test_dynamic_cast_c
    \/ Call_get_type_name_c
    \/ Call_print_object_info_c

SpecC == Init /\ [][NextC]_vars

\* virtual dispatch
NextAct ==
    \/ HeapStep(Values)
    \/ Call_performAction
    \/ Call_castedPerformAction
    \/ Call_printObjectInfo
    \/ Call_doWork
    \/ Call_getDescription

SpecAct == Init /\ [][NextAct]_vars

\* every call that leaves the heap alone, on instances of each variant
\* built by each unit, and SharedWorker::setValue
NextCalls ==
    \/ createHostSharedWorker(Values)
    \/ createDLLSharedWorker(Values)
    \/ createHostTemplatedWorkerInt
    \/ createDLLTemplatedWorkerString
    \/ UniquePtrReset
    \/ setValue(Values)
    \/ Call_getTypeName
    \/ Call_getDescription
    \/ Call_getValue
    \/ Call_isReady
    \/ Call_performAction
    \/ Call_doWork
    \/ Call_dynamic_cast
    \/ Call_testDynamicCast
    \/ Call_testHostDynamicCast
    \/ Call_test_dynamic_cast_c
    \/ Call_getTypeInfo
    \/ Call_getHostTypeInfo
    \/ Call_printObjectInfo

SpecCalls == Init /\ [][NextCalls]_vars

\* instances built directly and through the factory of the same unit, and
\* the weak functions
NextUnify ==
    \/ make_unique_SharedWorker(Values)
    \/ make_unique_TemplatedWorkerInt
    \/ createHostSharedWorker(Values)
    \/ createDLLSharedWorker(Values)
    \/ createHostTemplatedWorkerInt
    \/ createDLLTemplatedWorkerInt
    \/ UniquePtrReset
    \/ Call_getTypeName
    \/ Call_TypesEqual
    \/ Call_getSharedFunctionResult
    \/ Call_performSharedOperation

SpecUnify == Init /\ [][NextUnify]_vars

\* the factories of both units and the checked cast of what they return
NextFactory ==
    \/ createHostSharedWorker(Values)
    \/ createHostBaseObject(Values)
    \/ createHostTemplatedWorkerInt
    \/ createHostTemplatedWorkerString
    \/ createDLLSharedWorker(Values)
    \/ createDLLBaseObject(Values)
    \/ createDLLTemplatedWorkerInt
    \/ createDLLTemplatedWorkerString
    \/ UniquePtrReset
    \/ Call_dynamic_cast

SpecFactory == Init /\ [][NextFactory]_vars

\* every operation outside a run of main
Next ==
    \/ NextNames
    \/ NextCast
    \/ NextValue
    \/ NextUtil
    \/ NextC
    \/ NextAct
    \/ NextCalls
    \/ NextUnify
    \/ NextFactory

Spec == Init /\ [][Next]_vars

(***************************************************************************)
(* main() (main.cpp): the prologue, the six scenarios and the summary, run *)
(* one statement at a time inside the try block.  A statement is a tuple   *)
(* whose first element is its kind.                                        *)
(***************************************************************************)
\* stand-ins for the check mark and the ballot cross that main.cpp prints
CheckMark == "(check)"

CrossMark == "(cross)"

Rule60 == "============================================================"

Rule43 == "==========================================="

printSectionHeader(title) == << "", Rule60, " " \o title, Rule60 >>

\* operator<< on a std::size_t
DivTen(w) ==
    LET t2 == (w.hi % 10) * 65536 + w.mid
        t3 == (t2 % 10) * 65536 + w.low
    IN  << Word(w.hi \div 10, t2 \div 10, t3 \div 10), t3 % 10 >>

RECURSIVE ToDec(_)
ToDec(w) ==
    IF w.hi = 0 /\ w.mid = 0 /\ w.low < 10 THEN Digit(w.low)
    ELSE ToDec(DivTen(w)[1]) \o Digit(DivTen(w)[2])

ScopeExit(names) == [i \in 1..Len(names) |-> << "~unique_ptr", names[i] >>]

testBasicFunctionality ==
    << << "header", "Basic Functionality Test" >>,
       << "new", "hostWorker", "createHostSharedWorker", 10 >>,
       << "new", "dllWorker", "createDLLSharedWorker", 20 >>,
       << "print", << "", "--- Host-created object ---" >> >>,
       << "call", "hostWorker", "performAction", "" >>,
       << "call", "hostWorker", "doWork", "" >>,
       << "call", "hostWorker", "isReady", "isReady: " >>,
       << "print", << "", "--- DLL-created object ---" >> >>,
       << "call", "dllWorker", "performAction", "" >>,
       << "call", "dllWorker", "doWork", "" >>,
       << "call", "dllWorker", "isReady", "isReady: " >> >>
    \o ScopeExit(<< "dllWorker", "hostWorker" >>)

\* one pass of the loop over the vector of objects
TestObject(name, var) ==
    << << "print", << "", "--- Testing " \o name \o " ---" >> >>,
       << "call", var, "getTypeName", "Type name: " >>,
       << "call", var, "typeid.name", "RTTI name: " >>,
       << "call", var, "hash_code", "Hash code: " >>,
       << "print", << "", "Dynamic cast tests:" >> >>,
       << "call", var, "testHostDynamicCast", "" >>,
       << "call", var, "testDynamicCast", "" >>,
       << "print", << "", "Virtual method calls:" >> >>,
       << "call", var, "performAction", "" >> >>

testRTTIFunctionality ==
    << << "header", "RTTI Functionality Test" >>,
       << "new", "hostSharedWorker", "createHostSharedWorker", 100 >>,
       << "new", "dllSharedWorker", "createDLLSharedWorker", 200 >>,
       << "new", "hostTemplated", "createHostTemplatedWorkerInt", 300 >>,
       << "new", "dllTemplated", "createDLLTemplatedWorkerInt", 400 >>,
       << "emplace_back", "hostSharedWorker" >>,
       << "emplace_back", "dllSharedWorker" >>,
       << "emplace_back", "hostTemplated" >>,
       << "emplace_back", "dllTemplated" >> >>
    \o TestObject("HOST SharedWorker", "hostSharedWorker")
    \o TestObject("DLL SharedWorker", "dllSharedWorker")
    \o TestObject("HOST TemplatedWorker<int>", "hostTemplated")
    \o TestObject("DLL TemplatedWorker<int>", "dllTemplated")
    \o ScopeExit(<< "hostSharedWorker", "dllSharedWorker", "hostTemplated", "dllTemplated" >>)

testTypeUnification ==
    << << "header", "Type Unification Test" >>,
       << "new", "hostWorker", "createHostSharedWorker", 500 >>,
       << "new", "dllWorker", "createDLLSharedWorker", 600 >>,
       << "typeid==", "hostWorker", "dllWorker",
          "Host and DLL SharedWorker types are equal: ", TRUE >>,
       << "call", "hostWorker", "hash_code", "Host SharedWorker hash: " >>,
       << "call", "dllWorker", "hash_code", "DLL SharedWorker hash: " >>,
       << "call", "hostWorker", "typeid.name", "Host SharedWorker type name: " >>,
       << "call", "dllWorker", "typeid.name", "DLL SharedWorker type name: " >>,
       << "print", << "", "Cross-boundary casting test:" >> >>,
       << "cast", "dllWorker", "SharedWorker", "Cast DLL object to SharedWorker: " >>,
       << "cast", "hostWorker", "SharedWorker", "Cast HOST object to SharedWorker: " >>,
       << "print_if_cast", {"dllWorker", "hostWorker"},
          << "", "Calling methods on cross-cast objects:" >> >>,
       << "castcall", "dllWorker", {"dllWorker", "hostWorker"}, "DLL object method: " >>,
       << "castcall", "hostWorker", {"dllWorker", "hostWorker"}, "HOST object method: " >> >>
    \o ScopeExit(<< "dllWorker", "hostWorker" >>)

testTemplateUnification ==
    << << "header", "Template Instantiation Unification Test" >>,
       << "new", "hostTemplatedInt", "createHostTemplatedWorkerInt", 1000 >>,
       << "new", "dllTemplatedInt", "createDLLTemplatedWorkerInt", 2000 >>,
       << "new", "hostTemplatedString", "createHostTemplatedWorkerString", "HOST_STRING" >>,
       << "new", "dllTemplatedString", "createDLLTemplatedWorkerString", "DLL_STRING" >>,
       << "print", << "TemplatedWorker<int> unification:" >> >>,
       << "typeid==", "hostTemplatedInt", "dllTemplatedInt", "  Types equal: ", TRUE >>,
       << "call", "hostTemplatedInt", "hash_code", "  HOST hash: " >>,
       << "call", "dllTemplatedInt", "hash_code", "  DLL hash: " >>,
       << "print", << "", "TemplatedWorker<string> unification:" >> >>,
       << "typeid==", "hostTemplatedString", "dllTemplatedString", "  Types equal: ", TRUE >>,
       << "call", "hostTemplatedString", "hash_code", "  HOST hash: " >>,
       << "call", "dllTemplatedString", "hash_code", "  DLL hash: " >>,
       << "print", << "", "Cross-boundary template casting:" >> >>,
       << "cast", "dllTemplatedInt", "TemplatedWorker<int>", "  DLL->int cast: " >>,
       << "cast", "hostTemplatedInt", "TemplatedWorker<int>", "  HOST->int cast: " >>,
       << "cast", "dllTemplatedString", "TemplatedWorker<std::string>", "  DLL->string cast: " >>,
       << "cast", "hostTemplatedString", "TemplatedWorker<std::string>", "  HOST->string cast: " >> >>
    \o ScopeExit(<< "dllTemplatedString", "hostTemplatedString",
                    "dllTemplatedInt", "hostTemplatedInt" >>)

\* create_dll_object_c uses a throwing new, so cObj is never null here
testCInterface ==
    << << "header", "C Interface Test" >>,
       << "new", "cObj", "create_dll_object_c", 9999 >>,
       << "print", << "Created object through C interface" >> >>,
       << "call", "cObj", "get_type_name_c", "Type name (C): " >>,
       << "call", "cObj", "test_dynamic_cast_c", "Dynamic cast test (C): " >>,
       << "print", << "", "Object info through C interface:" >> >>,
       << "call", "cObj", "print_object_info_c", "" >>,
       << "print", << "", "Testing C object with C++ interface:" >> >>,
       << "cast", "cObj", "SharedWorker", "C++ dynamic_cast on C-created object: " >>,
       << "print_if_cast", {"cObj"}, << "Calling C++ method on C-created object:" >> >>,
       << "castcall", "cObj", {"cObj"}, "" >>,
       << "delete", "cObj" >> >>

\* shared_library.cpp: the body that testWeakSymbolFunctions runs in the DLL
demonstrateWeakSymbolUnification ==
    << << "print", << "", "DLL: Demonstrating Weak Symbol Unification", Rule43 >> >>,
       << "weak", "getSharedFunctionResult", "DLL", "DLL calling weak function: " >>,
       << "weak", "performSharedOperation", "DLL", 42 >>,
       << "new", "worker1", "DLL:make_unique<SharedWorker>", 100 >>,
       << "new", "worker2", "createDLLSharedWorker", 200 >>,
       << "call", "worker1", "typeid.name", "DLL: Local SharedWorker type: " >>,
       << "call", "worker2", "typeid.name", "DLL: Factory SharedWorker type: " >>,
       << "typeid==", "worker1", "worker2", "DLL: Types match: ", FALSE >>,
       << "new", "templated1", "DLL:make_unique<TemplatedWorker<int>>", 123 >>,
       << "new", "templated2", "createDLLTemplatedWorkerInt", 456 >>,
       << "call", "templated1", "typeid.name", "DLL: Direct TemplatedWorker<int> type: " >>,
       << "call", "templated2", "typeid.name", "DLL: Factory TemplatedWorker<int> type: " >>,
       << "typeid==", "templated1", "templated2", "DLL: Template types match: ", FALSE >> >>
    \o ScopeExit(<< "templated2", "templated1", "worker2", "worker1" >>)

testWeakSymbolFunctions ==
    << << "header", "Weak Symbol Function Unification Test" >>,
       << "external", "demonstrateHostWeakSymbolUnification" >> >>
    \o demonstrateWeakSymbolUnification
    \o << << "external", "verifyTypeUnificationAcrossBoundary" >> >>

\* main.cpp 227-230; the texts of __VERSION__ and __cpp_rtti belong to the build
Prologue ==
    << << "print", << "Weak Symbol Linking Demonstration", "Platform: macOS",
                      "Compiler: __VERSION__", "RTTI Enabled: YES" >> >> >>

Summary ==
    << << "header", "Summary" >>,
       << "print", << CheckMark \o " All tests completed successfully!",
                      CheckMark \o " Weak symbol linking is working correctly",
                      CheckMark \o " RTTI works across DLL boundaries",
                      CheckMark \o " Type unification is functioning properly" >> >> >>

MainBody ==
    << Prologue, testBasicFunctionality, testRTTIFunctionality, testTypeUnification,
       testTemplateUnification, testCInterface, testWeakSymbolFunctions, Summary >>

\* positions after the try block: return 0, the catch handlers, returned
AtReturn == Len(MainBody) + 1

AtCatch == Len(MainBody) + 2

AtExit == Len(MainBody) + 3

Running == pc[1] <= Len(MainBody) /\ exc = "none"

Returned == pc[1] = AtExit

Stmt == MainBody[pc[1]][pc[2]]

NextPc ==
    IF pc[2] < Len(MainBody[pc[1]]) THEN << pc[1], pc[2] + 1 >> ELSE << pc[1] + 1, 1 >>

\* a local of the running scenario: << name, pointer, "unique_ptr" or "raw" >>
Local(name) == (CHOOSE t \in locals : t[1] = name)[2]

\* what each factory and each construction in place builds:
\* << unit, object, lines written >>
Construct(factory, value) ==
    CASE factory = "createHostSharedWorker" ->
            << "HOST", NewSharedWorker(value, "HOST", "HOST"), <<>> >>
      [] factory = "createHostTemplatedWorkerInt" ->
            << "HOST", NewTemplatedWorker("TemplatedWorker<int>", value, "HOST", "HOST"), <<>> >>
      [] factory = "createHostTemplatedWorkerString" ->
            << "HOST", NewTemplatedWorker("TemplatedWorker<std::string>", value, "HOST", "HOST"),
               <<>> >>
      [] factory = "createDLLSharedWorker" ->
            << "DLL", NewSharedWorker(value, "DLL", "DLL"),
               << "DLL: Creating SharedWorker with value " \o IntToStr(value) >> >>
      [] factory = "createDLLTemplatedWorkerInt" ->
            << "DLL", NewTemplatedWorker("TemplatedWorker<int>", value, "DLL", "DLL"),
               << "DLL: Creating TemplatedWorker<int> with value " \o IntToStr(value) >> >>
      [] factory = "createDLLTemplatedWorkerString" ->
            << "DLL", NewTemplatedWorker("TemplatedWorker<std::string>", value, "DLL", "DLL"),
               << "DLL: Creating TemplatedWorker<string> with value '" \o value \o "'" >> >>
      [] factory = "create_dll_object_c" ->
            << "DLL", NewSharedWorker(value, "DLL-C-Interface", "DLL"), <<>> >>
      [] factory = "DLL:make_unique<SharedWorker>" ->
            << "DLL", NewSharedWorker(value, "DLL-Local", "DLL"), <<>> >>
      [] factory = "DLL:make_unique<TemplatedWorker<int>>" ->
            << "DLL", NewTemplatedWorker("TemplatedWorker<int>", value, "DLL-Direct", "DLL"),
               <<>> >>

Holder(factory) == IF factory = "create_dll_object_c" THEN "raw" ELSE "unique_ptr"

\* the call a "call" statement makes on instance p
CallResult(op, p) ==
    CASE op = "performAction" -> Result(FALSE, performAction(objs[p]), TRUE)
      [] op = "doWork" -> Result(FALSE, doWork(objs[p]), TRUE)
      [] op = "isReady" -> Result(isReady(objs[p]), <<>>, TRUE)
      [] op = "getTypeName" -> Result(getTypeName(objs[p]), <<>>, TRUE)
      [] op = "typeid.name" -> Result(Typeid(objs[p]).name, <<>>, TRUE)
      [] op = "hash_code" -> Result(HashCode(Typeid(objs[p])), <<>>, TRUE)
      [] op = "testHostDynamicCast" -> testHostDynamicCast(p)
      [] op = "testDynamicCast" -> testDynamicCast(p)
      [] op = "get_type_name_c" -> get_type_name_c(p)
      [] op = "test_dynamic_cast_c" -> test_dynamic_cast_c(p)
      [] op = "print_object_info_c" -> print_object_info_c(p)

CastMark(ok) == IF ok THEN "SUCCESS " \o CheckMark ELSE "FAILED " \o CrossMark

\* the lines std::cout receives from a "call" statement: those the callee
\* wrote and the one main builds around the returned value
CallLines(op, prefix, r) ==
    CASE op = "isReady" -> << prefix \o (IF r.val THEN "true" ELSE "false") >>
      [] op \in {"getTypeName", "typeid.name"} -> << prefix \o r.val >>
      [] op = "hash_code" -> << prefix \o ToDec(r.val) >>
      [] op = "get_type_name_c" -> << prefix \o r.val[1] >>
      [] op = "test_dynamic_cast_c" ->
            << prefix \o Head(r.out) >> \o Tail(r.out) \o << CastMark(r.val # 0) >>
      [] OTHER -> r.out

\* calls that build a std::string or a std::stringstream on the heap
Allocating == {"getTypeName", "print_object_info_c"}

CastsSucceed(names) ==
    \A n \in names : DynamicCast("HOST", Local(n), "SharedWorker") # NULL

Proceed(lines) ==
    /\ pc' = NextPc
    /\ reported' = reported \o lines
    /\ cout' = lines
    /\ exc' = "none"
    /\ UNCHANGED <<coalesced, exitCode>>

Main_print ==
    /\ Running
    /\ Stmt[1] \in {"print", "header"}
    /\ Proceed(IF Stmt[1] = "header" THEN printSectionHeader(Stmt[2]) ELSE Stmt[2])
    /\ UNCHANGED <<objs, ret, locals>>

Main_new ==
    /\ Running
    /\ Stmt[1] = "new"
    /\ LET made == Construct(Stmt[3], Stmt[4])
       IN  \E p \in Ptrs :
               /\ objs[p] = Free
               /\ objs' = [objs EXCEPT ![p] = made[2]]
               /\ locals' = locals \cup {<< Stmt[2], p, Holder(Stmt[3]) >>}
               /\ ret' = Call(Stmt[3], made[1], NULL, Stmt[4], made[2].class, p, FALSE)
               /\ Proceed(made[3])

Main_call ==
    /\ Running
    /\ Stmt[1] = "call"
    /\ LET p == Local(Stmt[2])
           r == CallResult(Stmt[3], p)
       IN  /\ ret' = Call(Stmt[3], "HOST", p, NULL, "none", r.val, r.deref)
           /\ Proceed(CallLines(Stmt[3], Stmt[4], r))
    /\ UNCHANGED <<objs, locals>>

Main_emplace_back ==
    /\ Running
    /\ Stmt[1] = "emplace_back"
    /\ Proceed(<<>>)
    /\ UNCHANGED <<objs, ret, locals>>

Main_typeid ==
    /\ Running
    /\ Stmt[1] = "typeid=="
    /\ LET p == Local(Stmt[2])
           q == Local(Stmt[3])
           equal == TypesEqual(objs[p], objs[q])
       IN  /\ ret' = Call("typeid==", "HOST", p, q, "none", equal, TRUE)
           /\ Proceed(<< Stmt[4] \o (IF equal THEN "YES" ELSE "NO")
                                 \o (IF ~Stmt[5] THEN ""
                                     ELSE IF equal THEN " " \o CheckMark
                                     ELSE " " \o CrossMark) >>)
    /\ UNCHANGED <<objs, locals>>

Main_cast ==
    /\ Running
    /\ Stmt[1] = "cast"
    /\ LET p == Local(Stmt[2])
           casted == DynamicCast("HOST", p, Stmt[3])
       IN  /\ ret' = Call("dynamic_cast", "HOST", p, NULL, Stmt[3], casted, TRUE)
           /\ Proceed(<< Stmt[4] \o CastMark(casted # NULL) >>)
    /\ UNCHANGED <<objs, locals>>

Main_print_if_cast ==
    /\ Running
    /\ Stmt[1] = "print_if_cast"
    /\ Proceed(IF CastsSucceed(Stmt[2]) THEN Stmt[3] ELSE <<>>)
    /\ UNCHANGED <<objs, ret, locals>>

Main_castcall ==
    /\ Running
    /\ Stmt[1] = "castcall"
    /\ LET p == Local(Stmt[2])
           lines == SharedWorker_performAction(objs[p])
       IN  IF CastsSucceed(Stmt[3])
           THEN /\ ret' = Call("casted->performAction", "HOST", p, NULL, "SharedWorker", p, TRUE)
                /\ Proceed(<< Stmt[4] \o Head(lines) >> \o Tail(lines))
           ELSE /\ ret' = ret
                /\ Proceed(<<>>)
    /\ UNCHANGED <<objs, locals>>

\* destroy_dll_object_c(cObj), the last use of cObj
Main_delete ==
    /\ Running
    /\ Stmt[1] = "delete"
    /\ LET p == Local(Stmt[2])
       IN  /\ objs' = [objs EXCEPT ![p] = Free]
           /\ ret' = Call("destroy_dll_object_c", "DLL", p, NULL, "none", FALSE, TRUE)
    /\ locals' = {t \in locals : t[1] # Stmt[2]}
    /\ Proceed(<<>>)

\* the closing brace of a scenario: each std::unique_ptr local deletes its
\* object; the last one leaves the scenario without locals
Main_scopeExit ==
    /\ Running
    /\ Stmt[1] = "~unique_ptr"
    /\ LET p == Local(Stmt[2])
       IN  /\ objs' = [objs EXCEPT ![p] = Free]
           /\ ret' = Call("~unique_ptr", "HOST", p, NULL, "none", FALSE, TRUE)
    /\ locals' = {t \in locals : t[1] # Stmt[2]}
    /\ Proceed(<<>>)

Main_weak ==
    /\ Running
    /\ Stmt[1] = "weak"
    /\ LET r == IF Stmt[2] = "getSharedFunctionResult"
                THEN getSharedFunctionResult(Stmt[3])
                ELSE performSharedOperation(Stmt[3], Stmt[4])
       IN  /\ ret' = Call(Stmt[2], Stmt[3], NULL, NULL, "none", r.val, r.deref)
           /\ Proceed(IF Stmt[2] = "getSharedFunctionResult"
                      THEN << Stmt[4] \o r.val >>
                      ELSE r.out)
    /\ UNCHANGED <<objs, locals>>

\* demonstrateHostWeakSymbolUnification and verifyTypeUnificationAcrossBoundary
\* are declared in main.cpp and defined outside it: a call returns, having
\* left the heap as it found it, or raises
Main_external ==
    /\ Running
    /\ Stmt[1] = "external"
    /\ \/ /\ Proceed(<<>>)
          /\ UNCHANGED <<objs, ret, locals>>
       \/ /\ exc' = "unknown"
          /\ UNCHANGED <<objs, coalesced, ret, cout, mainVars>>

\* operator new finds no memory: std::bad_alloc leaves the statement
Main_bad_alloc ==
    /\ Running
    /\ \/ Stmt[1] \in {"new", "emplace_back"}
       \/ Stmt[1] = "call" /\ Stmt[3] \in Allocating
    /\ exc' = "std::bad_alloc"
    /\ UNCHANGED <<objs, coalesced, ret, cout, mainVars>>

\* stack unwinding up to the try block of main: the std::unique_ptr locals
\* of the scenario delete their objects, raw pointers are dropped
Main_unwind ==
    /\ pc[1] <= Len(MainBody)
    /\ exc # "none"
    /\ objs' = [p \in Ptrs |->
                   IF \E t \in locals : t[2] = p /\ t[3] = "unique_ptr"
                   THEN Free ELSE objs[p]]
    /\ locals' = {}
    /\ pc' = << AtCatch, pc[1] >>
    /\ UNCHANGED <<coalesced, ret, cout, exc, reported, exitCode>>

\* variant: the handler reports the exception and lets main return 0
Main_catch_Swallow ==
    /\ pc[1] = AtCatch
    /\ exitCode' = 0
    /\ pc' = << AtExit, pc[2] >>
    /\ UNCHANGED <<objs, coalesced, ret, cout, exc, locals, reported>>

\* catch (const std::exception&) and catch (...): the message goes to
\* std::cerr and main returns 1
Main_catch ==
    /\ pc[1] = AtCatch
    /\ exitCode' = 1
    /\ pc' = << AtExit, pc[2] >>
    /\ UNCHANGED <<objs, coalesced, ret, cout, exc, locals, reported>>

Main_return ==
    /\ pc[1] = AtReturn
    /\ exc = "none"
    /\ exitCode' = 0
    /\ pc' = << AtExit, pc[2] >>
    /\ UNCHANGED <<objs, coalesced, ret, cout, exc, locals, reported>>

InitMain ==
    /\ objs = [p \in 1..HeapCells |-> Free]
    /\ coalesced \in BOOLEAN
    /\ ret = NoCall
    /\ cout = <<>>
    /\ exc = "none"
    /\ pc = <<1, 1>>
    /\ locals = {}
    /\ reported = <<>>
    /\ exitCode = 0

NextMain ==
    \/ Main_print
    \/ Main_new
    \/ Main_call
    \/ Main_emplace_back
    \/ Main_typeid
    \/ Main_cast
    \/ Main_print_if_cast
    \/ Main_castcall
    \/ Main_delete
    \/ Main_scopeExit
    \/ Main_weak
    \/ Main_external
    \/ Main_bad_alloc
    \/ Main_unwind
    \/ Main_catch
    \/ Main_return

SpecMain == InitMain /\ [][NextMain]_vars

(***************************************************************************)
(* Properties                                                              *)
(***************************************************************************)
CrossUnit(p, q) ==
    /\ objs[p].class = objs[q].class
    /\ objs[p].unit # objs[q].unit

\* C1: two instances of the same concrete variant, one created by a host
\* factory and one by a DLL factory, report equal getTypeName() strings,
\* whatever their payloads and origin tags.
C1_TypeNameUnified ==
    /\ \A p \in LivePtrs, q \in LivePtrs :
          CrossUnit(p, q) => getTypeName(objs[p]) = getTypeName(objs[q])
    /\ ret.op = "getTypeName" =>
          \A q \in LivePtrs :
              CrossUnit(ret.arg, q) => getTypeName(objs[q]) = ret.val

C1_Witness ==
    /\ ret.op = "getTypeName"
    /\ \E q \in LivePtrs :
          /\ CrossUnit(ret.arg, q)
          /\ objs[q].m_source # objs[ret.arg].m_source
          /\ objs[q].class = "SharedWorker"
          /\ objs[q].m_value # objs[ret.arg].m_value

\* the line of testDynamicCast's report that shows the cast to class c
CastLine(c) ==
    CASE c = "AbstractWorker" -> 2
      [] c = "SharedWorker" -> 3
      [] c = "TemplatedWorker<int>" -> 4
      [] c = "TemplatedWorker<std::string>" -> 5

Succeeded(line) == Contains(line, "SUCCESS")

\* C2: a checked cast from the IBaseObject pointer to the instance's own
\* concrete variant succeeds in host-compiled code and in DLL-compiled
\* code, for instances created by either unit.
C2_CrossCastSucceeds ==
    /\ \A p \in LivePtrs, u \in Units : DynamicCast(u, p, objs[p].class) = p
    /\ ret.op = "dynamic_cast" /\ ret.target = objs[ret.arg].class
          => ret.val = ret.arg
    /\ ret.op = "testDynamicCast" /\ ret.arg # NULL
          => Succeeded(cout[CastLine(objs[ret.arg].class)])

C2_Witness ==
    /\ ret.op = "testDynamicCast"
    /\ ret.arg # NULL
    /\ objs[ret.arg].unit = "HOST"
    /\ ~coalesced
    /\ Succeeded(cout[CastLine(objs[ret.arg].class)])
    /\ \E q \in LivePtrs : objs[q].unit = "DLL" /\ DynamicCast("HOST", q, objs[q].class) = q

C4_WrongVariantCastIsNull ==
    /\ \A p \in LivePtrs, u \in Units, Y \in ConcreteClasses :
          Y # objs[p].class => DynamicCast(u, p, Y) = NULL
    /\ ret.op = "dynamic_cast" /\ ret.target # objs[ret.arg].class
          => ret.val = NULL
    /\ ret.op = "testDynamicCast" /\ ret.arg # NULL =>
          \A Y \in ConcreteClasses :
              Y # objs[ret.arg].class => ~Succeeded(cout[CastLine(Y)])

C4_Witness ==
    /\ ret.op = "dynamic_cast"
    /\ ret.target # objs[ret.arg].class
    /\ ret.val = NULL
    /\ \E q \in LivePtrs : objs[q].unit # objs[ret.arg].unit

\* C5: instances of different variants report different getTypeName()
\* strings; the names of TemplatedWorker<int> and TemplatedWorker<string>
\* differ and both contain "TemplatedWorker"; each instance casts
\* successfully to its own variant only.
IsTemplated(p) ==
    objs[p].class \in {"TemplatedWorker<int>", "TemplatedWorker<std::string>"}

C5_VariantsDistinguished ==
    /\ \A p \in LivePtrs, q \in LivePtrs :
          objs[p].class # objs[q].class
              => getTypeName(objs[p]) # getTypeName(objs[q])
    /\ \A p \in LivePtrs :
          IsTemplated(p) =>
              /\ Contains(getTypeName(objs[p]), "TemplatedWorker")
              /\ \A u \in Units, Y \in ConcreteClasses :
                    (DynamicCast(u, p, Y) # NULL) <=> (Y = objs[p].class)
    /\ ret.op = "dynamic_cast" /\ IsTemplated(ret.arg)
          => ((ret.val # NULL) <=> (ret.target = objs[ret.arg].class))

C5_Witness ==
    /\ ret.op = "getTypeName"
    /\ objs[ret.arg].class = "TemplatedWorker<int>"
    /\ \E q \in LivePtrs :
          /\ objs[q].class = "TemplatedWorker<std::string>"
          /\ getTypeName(objs[q]) # ret.val
          /\ Contains(ret.val, "TemplatedWorker")

\* C6: isReady() of a SharedWorker returns exactly (current value > 0):
\* false for -1 and 0, true for 1 and 500, whichever unit created it, and it
\* follows the payload through setValue.
C6_ReadyIffPositive ==
    /\ \A p \in LivePtrs :
          objs[p].class = "SharedWorker" =>
              /\ isReady(objs[p]) = (objs[p].m_value > 0)
              /\ objs[p].m_value \in {-1, 0} => ~isReady(objs[p])
              /\ objs[p].m_value \in {1, 500} => isReady(objs[p])
    /\ ret.op = "isReady" /\ objs[ret.arg].class = "SharedWorker"
          => ret.val = (objs[ret.arg].m_value > 0)

C6_Witness ==
    /\ ret.op = "isReady"
    /\ objs[ret.arg].class = "SharedWorker"
    /\ objs[ret.arg].unit = "DLL"
    /\ objs[ret.arg].m_value = 0
    /\ ret.val = FALSE
    /\ \E q \in LivePtrs :
          /\ objs[q].class = "SharedWorker"
          /\ objs[q].unit = "HOST"
          /\ objs[q].m_value = 1
          /\ isReady(objs[q])

\* C7: getValue() returns the numeric payload of every variant: the value
\* of a SharedWorker and the data of a TemplatedWorker<int>.
C7_GetValueReturnsPayload ==
    ret.op = "getValue" =>
        /\ objs[ret.arg].class = "SharedWorker"
              => ret.val = objs[ret.arg].m_value
        /\ objs[ret.arg].class = "TemplatedWorker<int>"
              => ret.val = objs[ret.arg].m_data

\* C8: given a null instance, testDynamicCast and testHostDynamicCast
\* return false, getTypeInfo and getHostTypeInfo return "null", and
\* printObjectInfo and printHostObjectInfo return without reading the
\* instance.
C8_NullInstanceSentinels ==
    ret.arg = NULL =>
        /\ ret.op \in {"testDynamicCast", "testHostDynamicCast"}
              => ret.val = FALSE /\ ~ret.deref
        /\ ret.op \in {"getTypeInfo", "getHostTypeInfo"}
              => ret.val = "null" /\ ~ret.deref
        /\ ret.op = "printObjectInfo"
              => cout = << "DLL: Object is null" >> /\ ~ret.deref
        /\ ret.op = "printHostObjectInfo"
              => cout = << "HOST: Object is null" >> /\ ~ret.deref

C8_Witness ==
    /\ ret.op = "getHostTypeInfo"
    /\ ret.arg = NULL
    /\ ret.val = "null"
    /\ LivePtrs # {}

COps == {"test_dynamic_cast_c", "get_type_name_c", "print_object_info_c",
         "destroy_dll_object_c"}

\* C9: every function of the C interface accepts a null instance:
\* test_dynamic_cast_c returns 0, get_type_name_c returns a null pointer,
\* destroy_dll_object_c and print_object_info_c leave every object as it
\* was, and none of them reads the instance.
C9_CInterfaceNull ==
    [][ (ret'.op \in COps /\ ret'.arg = NULL) =>
            /\ objs' = objs
            /\ ~ret'.deref
            /\ ret'.op = "test_dynamic_cast_c" => ret'.val = 0
            /\ ret'.op = "get_type_name_c" => ret'.val = <<>>
      ]_vars

C9_Witness ==
    /\ ret.op = "destroy_dll_object_c"
    /\ ret.arg = NULL
    /\ \E p \in LivePtrs : objs[p].m_source = "DLL-C-Interface"

\* the override of the concrete variant that a checked cast identifies
ConcreteOverride(p) ==
    IF DynamicCast("HOST", p, "SharedWorker") # NULL
    THEN SharedWorker_performAction(objs[p])
    ELSE TemplatedWorker_performAction(objs[p])

\* C10: performAction() called through the IBaseObject pointer runs the
\* override of the instance's concrete variant and writes what a call on
\* the cast, concrete pointer writes, for instances of either unit.
C10_DispatchMatchesOverride ==
    /\ ret.op = "performAction" => cout = ConcreteOverride(ret.arg)
    /\ ret.op = "casted->performAction" /\ ret.val # NULL
          => cout = performAction(objs[ret.arg])
    /\ ret.op = "printObjectInfo" /\ ret.arg # NULL
          => SubSeq(cout, 7, Len(cout)) = ConcreteOverride(ret.arg)

C10_Witness ==
    /\ ret.op = "performAction"
    /\ objs[ret.arg].class = "SharedWorker"
    /\ objs[ret.arg].unit = "DLL"
    /\ cout = SharedWorker_performAction(objs[ret.arg])

\* C11: no operation throws for an expected negative outcome:
\* performAction() and doWork() never throw on an instance of either unit,
\* a checked cast to a variant the instance is not yields null and no
\* exception, and a query on a null instance yields its sentinel and no
\* exception.
NullQueries == {"testDynamicCast", "testHostDynamicCast", "test_dynamic_cast_c",
                "getTypeInfo", "getHostTypeInfo", "printObjectInfo"}

C11_NoThrowOnNegativeOutcome ==
    /\ ret.op \in {"performAction", "doWork"} => exc = "none"
    /\ ret.op = "dynamic_cast" =>
           /\ exc = "none"
           /\ ret.target \notin Ancestors(objs[ret.arg].class) => ret.val = NULL
    /\ ret.op \in NullQueries /\ ret.arg = NULL =>
           /\ exc = "none"
           /\ ret.op \in {"testDynamicCast", "testHostDynamicCast"} => ret.val = FALSE
           /\ ret.op = "test_dynamic_cast_c" => ret.val = 0
           /\ ret.op \in {"getTypeInfo", "getHostTypeInfo"} => ret.val = "null"
           /\ ret.op = "printObjectInfo" => cout = << "DLL: Object is null" >>

C11_Witness ==
    /\ ret.op = "dynamic_cast"
    /\ objs[ret.arg].unit = "DLL"
    /\ ret.target \notin Ancestors(objs[ret.arg].class)
    /\ ret.val = NULL
    /\ exc = "none"

Payload(o) == IF o.class = "SharedWorker" THEN o.m_value ELSE o.m_data

CastOutcomes(p) ==
    [unit \in Units, target \in Classes |-> DynamicCast(unit, p, target) # NULL]

\* C12: the origin tag never influences identity logic: two instances of
\* the same variant with the same payload whose origin tags differ give the
\* same getTypeName(), getValue(), isReady(), RTTI name, the same outcome
\* of every checked cast and the same testDynamicCast and
\* testHostDynamicCast results.
C12_TagDoesNotInfluenceIdentity ==
    \A p \in LivePtrs, q \in LivePtrs :
        /\ objs[p].class = objs[q].class
        /\ Payload(objs[p]) = Payload(objs[q])
        /\ objs[p].m_source # objs[q].m_source
        /\ ret.op = "getValue"
        /\ ret.arg = p
        => /\ getTypeName(objs[p]) = getTypeName(objs[q])
           /\ isReady(objs[p]) = isReady(objs[q])
           /\ Typeid(objs[p]).name = Typeid(objs[q]).name
           /\ CastOutcomes(p) = CastOutcomes(q)
           /\ testDynamicCast(p).val = testDynamicCast(q).val
           /\ testHostDynamicCast(p).val = testHostDynamicCast(q).val
           /\ ret.val = getValue(objs[q], q)

\* the variant, origin tag and unit each factory is meant to produce
Intended ==
    [createHostSharedWorker |-> << "SharedWorker", "HOST", "HOST" >>,
     createHostBaseObject |-> << "SharedWorker", "HOST-BaseObject", "HOST" >>,
     createHostTemplatedWorkerInt |-> << "TemplatedWorker<int>", "HOST", "HOST" >>,
     createHostTemplatedWorkerString |-> << "TemplatedWorker<std::string>", "HOST", "HOST" >>,
     createDLLSharedWorker |-> << "SharedWorker", "DLL", "DLL" >>,
     createDLLBaseObject |-> << "SharedWorker", "DLL-BaseObject", "DLL" >>,
     createDLLTemplatedWorkerInt |-> << "TemplatedWorker<int>", "DLL", "DLL" >>,
     createDLLTemplatedWorkerString |-> << "TemplatedWorker<std::string>", "DLL", "DLL" >>]

\* C13: every unit factory, for any payload, returns a non-null instance
\* in a cell nothing else held, of the intended concrete variant, carrying
\* exactly the payload it was given and the creating unit's tag; an
\* instance returned in the IBaseObject form casts to SharedWorker and
\* reports its tag through getSource().
C13_FactoriesBuildIntendedVariant ==
    [][ret'.op \in DOMAIN Intended =>
          /\ ret'.val \in Ptrs
          /\ exc' = "none"
          /\ \A p \in Ptrs :
                 p = ret'.val =>
                     LET o == objs'[p]
                         want == Intended[ret'.op]
                     IN  /\ objs[p] = Free
                         /\ \A q \in Ptrs \ {p} : objs'[q] = objs[q]
                         /\ o.class = want[1]
                         /\ Payload(o) = ret'.arg2
                         /\ o.m_source = want[2]
                         /\ o.unit = want[3]
                         /\ ret'.op \in {"createHostBaseObject", "createDLLBaseObject"} =>
                                /\ DynamicCast("HOST", p, "SharedWorker")' = p
                                /\ SharedWorker_getSource(o) = want[2]]_vars

C13_Witness ==
    /\ ret.op = "createHostBaseObject"
    /\ ret.arg2 = 500
    /\ DynamicCast("HOST", ret.val, "SharedWorker") = ret.val
    /\ SharedWorker_getSource(objs[ret.val]) = "HOST-BaseObject"

\* C14: the weak functions Internal::getSharedFunctionResult and
\* Internal::performSharedOperation resolve to one and the same
\* implementation: a call from host code and a call from DLL code bind to
\* the same definition and return the same string, which is non-empty and
\* contains "Shared function result".
C14_WeakFunctionsUnified ==
    ret.op = "getSharedFunctionResult" =>
        /\ WeakDefinition("HOST") = WeakDefinition("DLL")
        /\ getSharedFunctionResult("HOST").val = getSharedFunctionResult("DLL").val
        /\ performSharedOperation("HOST", 42).out = performSharedOperation("DLL", 42).out
        /\ ret.val # ""
        /\ Contains(ret.val, "Shared function result")

BuiltDirectly(p) ==
    objs[p].m_source \in {"HOST-Local", "DLL-Local", "HOST-Direct", "DLL-Direct"}

\* C15: of two instances of the same variant created within the same unit,
\* one constructed directly and one through that unit's factory, the type
\* descriptors compare equal (typeid == typeid) and the getTypeName()
\* strings are equal; for SharedWorker the string is exactly "SharedWorker".
C15_SameUnitTypeConsistency ==
    \A p \in LivePtrs, q \in LivePtrs :
        /\ objs[p].class = objs[q].class
        /\ objs[p].unit = objs[q].unit
        /\ BuiltDirectly(p)
        /\ ~BuiltDirectly(q)
        => /\ TypesEqual(objs[p], objs[q])
           /\ getTypeName(objs[p]) = getTypeName(objs[q])
           /\ objs[p].class = "SharedWorker" => getTypeName(objs[p]) = "SharedWorker"
           /\ ret.op = "typeid==" /\ {ret.arg, ret.arg2} = {p, q} => ret.val = TRUE

C15_Witness ==
    /\ ~coalesced
    /\ ret.op = "typeid=="
    /\ ret.val = TRUE
    /\ objs[ret.arg].class = "SharedWorker"
    /\ objs[ret.arg2].class = "SharedWorker"
    /\ objs[ret.arg].unit = "DLL"
    /\ objs[ret.arg2].unit = "DLL"
    /\ BuiltDirectly(ret.arg) # BuiltDirectly(ret.arg2)

\* C19: for every input testDynamicCast (DLL-compiled) and
\* testHostDynamicCast (host-compiled) return the same result, true exactly
\* when the instance is non-null and is an AbstractWorker, whatever its
\* concrete variant and whatever the casts to SharedWorker and
\* TemplatedWorker gave; test_dynamic_cast_c returns 1 exactly when
\* testDynamicCast returns true.
IsAbstractWorker(p) == p # NULL /\ "AbstractWorker" \in Ancestors(objs[p].class)

C19_CastTestsAgree ==
    /\ ret.op \in {"testDynamicCast", "testHostDynamicCast"} =>
           /\ ret.val = IsAbstractWorker(ret.arg)
           /\ testHostDynamicCast(ret.arg).val = testDynamicCast(ret.arg).val
    /\ ret.op = "test_dynamic_cast_c" =>
           /\ ret.val = (IF IsAbstractWorker(ret.arg) THEN 1 ELSE 0)
           /\ (ret.val = 1) = testDynamicCast(ret.arg).val

C19_Witness ==
    /\ ~coalesced
    /\ ret.op = "testHostDynamicCast"
    /\ ret.val = TRUE
    /\ objs[ret.arg].unit = "DLL"
    /\ objs[ret.arg].class = "TemplatedWorker<std::string>"
    /\ DynamicCast("HOST", ret.arg, "SharedWorker") = NULL

\* C20: only SharedWorker::setValue changes an instance's payload and
\* nothing changes its origin tag or concrete variant: every query, cast,
\* cast test, type-info and print call leaves every instance as it was,
\* and after setValue(v) getValue() returns v while the source and
\* getTypeName() of the instance, and every other instance, are unchanged.
Queries == {"getTypeName", "getDescription", "getValue", "isReady", "performAction",
            "doWork", "dynamic_cast", "testDynamicCast", "testHostDynamicCast",
            "test_dynamic_cast_c", "getTypeInfo", "getHostTypeInfo", "printObjectInfo"}

C20_OnlySetValueWrites ==
    [][/\ ret'.op \in Queries => objs' = objs
       /\ \A p \in Ptrs :
              objs[p] # Free /\ objs'[p] # Free =>
                  /\ objs'[p].class = objs[p].class
                  /\ objs'[p].m_source = objs[p].m_source
                  /\ getTypeName(objs'[p]) = getTypeName(objs[p])
                  /\ Payload(objs'[p]) # Payload(objs[p]) =>
                         ret'.op = "setValue" /\ ret'.arg = p
       /\ ret'.op = "setValue" =>
              \A p \in Ptrs :
                  p = ret'.arg => getValue(objs'[p], p) = ret'.arg2]_vars

C20_Witness ==
    /\ ret.op = "setValue"
    /\ ret.arg2 = 500
    /\ objs[ret.arg].m_source = "DLL"
    /\ getValue(objs[ret.arg], ret.arg) = 500
    /\ \E q \in LivePtrs : q # ret.arg /\ objs[q].class = "SharedWorker" /\ objs[q].m_value = 0

InTranscript(line) == \E i \in DOMAIN reported : reported[i] = line

\* the section title each entry of MainBody prints first
Titles ==
    << "", "Basic Functionality Test", "RTTI Functionality Test", "Type Unification Test",
       "Template Instantiation Unification Test", "C Interface Test",
       "Weak Symbol Function Unification Test", "Summary" >>

\* C16: every instance created during a scenario, the raw object returned
\* by create_dll_object_c included, is destroyed exactly once and no later
\* than the end of the scenario that created it, is never used after its
\* destruction, and no instance is live when the next scenario begins:
\* each pointer a scenario holds refers to a live instance, each live
\* instance is held by exactly one local of the running scenario, and
\* nothing is live or held between scenarios, after an aborted scenario
\* or when main has returned.
C16_InstancesDieWithScenario ==
    /\ \A t \in locals : Live(t[2])
    /\ \A p \in LivePtrs :
           pc[1] <= Len(MainBody) /\ exc = "none" =>
               Cardinality({t \in locals : t[2] = p}) = 1
    /\ pc[1] <= AtReturn /\ pc[2] = 1 => LivePtrs = {} /\ locals = {}
    /\ pc[1] \in {AtCatch, AtExit} => LivePtrs = {} /\ locals = {}

\* C17: when scenario k of main's fixed sequence raises an exception, the
\* scenario stops at that statement, the exception reaches the handlers of
\* main, nothing more is reported, what the scenarios before k reported
\* remains, and main returns 1; main returns 0 only when no scenario
\* raised.
C17_ExceptionAbortsRun ==
    [][/\ Len(reported') >= Len(reported)
       /\ SubSeq(reported', 1, Len(reported)) = reported
       /\ exc = "none" /\ exc' # "none" => pc' = pc
       /\ exc # "none" =>
              /\ exc' = exc
              /\ reported' = reported
              /\ pc[1] <= Len(MainBody) => pc' = << AtCatch, pc[1] >>
              /\ pc[1] = AtCatch => pc' = << AtExit, pc[2] >>
       /\ pc'[1] = AtExit =>
              /\ exitCode' = IF exc' = "none" THEN 0 ELSE 1
              /\ exc' # "none" =>
                     \A j \in 2..Len(MainBody) :
                         InTranscript(" " \o Titles[j])' <=> j <= pc'[2]]_vars

C17_Witness ==
    /\ Returned
    /\ exitCode = 1
    /\ exc = "std::bad_alloc"
    /\ pc[2] = 4
    /\ InTranscript(" RTTI Functionality Test")
    /\ InTranscript("SharedWorker::performAction() called from DLL with value 200")
    /\ ~InTranscript(" Template Instantiation Unification Test")

\* C18: main prints the success summary and exits 0 only if every
\* cross-boundary checked cast and type comparison the scenarios made
\* succeeded, that is, only if no line of the transcript carries the
\* failure mark.
C18_SuccessOnlyIfChecksSucceeded ==
    /\ Returned
    /\ exitCode = 0
    /\ InTranscript(CheckMark \o " All tests completed successfully!")
    => \A i \in DOMAIN reported : ~Contains(reported[i], CrossMark)

====
